---- MODULE Spec2Model ----
(***************************************************************************)
(* Model of policyengine_github_bot: the webhook handler (webhooks.py) and *)
(* the review / re-review passes (llm.py) over the response schemas of     *)
(* models.py.  Strings that the code inspects character by character are   *)
(* sequences of one-character strings; the character written "U+00E9" is  *)
(* a non-ASCII character.                                                  *)
(***************************************************************************)
EXTENDS Integers, Sequences, FiniteSets, TLC

VARIABLES pc, secret, header, payload, event, sig_result, status, error, log,
          kind, diff, thread_count, output, result, returned

vars == <<pc, secret, header, payload, event, sig_result, status, error, log,
          kind, diff, thread_count, output, result, returned>>

webhook_vars == <<secret, header, payload, event, sig_result, status, error, log>>
review_vars == <<kind, diff, thread_count, output, result, returned>>

None == "None"

(***************************************************************************)
(* Bounds of the model.                                                    *)
(***************************************************************************)
MaxThreads == 3
MaxActions == 2
MaxComments == 1
NumSecrets == 2

(***************************************************************************)
(* webhooks.py: verify_signature                                           *)
(***************************************************************************)
Sha256Prefix == <<"s", "h", "a", "2", "5", "6", "=">>

HexChars == <<"0", "1", "2", "3", "4", "5", "6", "7",
              "8", "9", "a", "b", "c", "d", "e", "f">>

NonAscii == {"U+00E9"}

\* The request bodies a delivery can carry, by what request.json() and
\* IssueWebhookPayload.model_validate make of them.  payload is an index here.
PayloadTable ==
  << [is_json |-> FALSE, valid_issue |-> FALSE, action |-> None, installation |-> FALSE],
     [is_json |-> TRUE, valid_issue |-> FALSE, action |-> None, installation |-> FALSE],
     [is_json |-> TRUE, valid_issue |-> TRUE, action |-> "opened", installation |-> TRUE],
     [is_json |-> TRUE, valid_issue |-> TRUE, action |-> "opened", installation |-> FALSE],
     [is_json |-> TRUE, valid_issue |-> TRUE, action |-> "closed", installation |-> TRUE] >>

Payloads == DOMAIN PayloadTable
Secrets == 1..NumSecrets
Events == {"issues", "ping", "push"}

\* hmac.new(secret, payload, sha256).hexdigest(): a keyed digest of the raw
\* body, written in lowercase hex (one byte of it in this model).
HexByte(n) == <<HexChars[(n \div 16) + 1], HexChars[(n % 16) + 1]>>

hmac_hexdigest(key, body) == HexByte((key * 89 + body * 37 + key * body * 11 + 5) % 256)

startswith(s, prefix) ==
  /\ Len(s) >= Len(prefix)
  /\ SubSeq(s, 1, Len(prefix)) = prefix

IsAscii(s) == \A i \in DOMAIN s : s[i] \notin NonAscii

\* hmac.compare_digest on two str: raises TypeError when either holds a
\* non-ASCII character, otherwise tells whether they are equal.
compare_digest(a, b) ==
  IF ~IsAscii(a) \/ ~IsAscii(b) THEN "TypeError"
  ELSE IF a = b THEN "True" ELSE "False"

verify_signature(body, signature, key) ==
  IF ~startswith(signature, Sha256Prefix) THEN "False"
  ELSE compare_digest(Sha256Prefix \o hmac_hexdigest(key, body), signature)

\* x_hub_signature_256 or "": a missing header is the empty string.
OrEmpty(h) == IF h.present THEN h.value ELSE <<>>

Digests == {hmac_hexdigest(k, b) : k \in Secrets, b \in Payloads}

Tails == Digests \cup {<<>>, <<"a", "b", "c", "d">>, <<"U+00E9", "0">>}

Prefixes == {<<>>, Sha256Prefix, <<"s", "h", "a", "1", "=">>,
             <<"s", "h", "a", "2", "5", "6">>}

Headers == {[present |-> FALSE, value |-> <<>>]}
           \cup {[present |-> TRUE, value |-> p \o t] : p \in Prefixes, t \in Tails}

(***************************************************************************)
(* models.py: the response schemas, and the outputs agent.run can return   *)
(***************************************************************************)
RECURSIVE SeqsUpTo(_, _)
SeqsUpTo(S, n) ==
  IF n = 0 THEN {<<>>}
  ELSE LET shorter == SeqsUpTo(S, n - 1)
       IN shorter \cup {Append(s, x) : s \in {t \in shorter : Len(t) = n - 1}, x \in S}

\* ThreadAction: thread_index is any int, reply is optional.
ThreadAction ==
  {[thread_index |-> i, action |-> "RESOLVE", reply |-> None] : i \in -1..(MaxThreads - 1)}
  \cup
  {[thread_index |-> i, action |-> "REPLY", reply |-> "fix?"] : i \in -1..(MaxThreads - 1)}

Paths == {"a.py"}
CommentLines == {11, 12}

\* PRReviewComment: path, line (any int), body.
PRReviewComment == {[path |-> p, line |-> l, body |-> "b"] : p \in Paths, l \in CommentLines}

\* PRReviewResponse: summary and approval are required strings.
PRReviewResponse ==
  {[summary |-> "s", approval |-> a, comments |-> c] :
     a \in {"APPROVE", "COMMENT"}, c \in SeqsUpTo(PRReviewComment, MaxComments)}

\* PRReReviewResponse: summary and approval are optional.
PRReReviewResponse ==
  {[thread_actions |-> t, new_comments |-> c, summary |-> s, approval |-> a] :
     t \in SeqsUpTo(ThreadAction, MaxActions),
     c \in SeqsUpTo(PRReviewComment, MaxComments),
     s \in {None, "s"}, a \in {None, "COMMENT"}}

NoOutput == [thread_actions |-> <<>>, new_comments |-> <<>>, summary |-> None,
             approval |-> None]

(***************************************************************************)
(* The unified diffs a pass is given: file hunks with the new-side start   *)
(* of the hunk header and the marker of each line.                         *)
(***************************************************************************)
Diffs ==
  { <<>>,
    << [path |-> "a.py", old_start |-> 10, new_start |-> 12,
        lines |-> <<"+", "+", " ", " ", " ", " ", " ">>] >>,
    << [path |-> "a.py", old_start |-> 11, new_start |-> 11,
        lines |-> <<" ", "-", "+">>] >> }

\* Number of added or context lines among the first n lines of a hunk.
RECURSIVE RightSide(_, _)
RightSide(lines, n) ==
  IF n = 0 THEN 0
  ELSE RightSide(lines, n - 1) + (IF lines[n] = "-" THEN 0 ELSE 1)

\* The (path, line) addresses on the right side of the diff.
hunk_commentable(hunk) ==
  {<<hunk.path, hunk.new_start + RightSide(hunk.lines, i - 1)>> :
     i \in {j \in DOMAIN hunk.lines : hunk.lines[j] # "-"}}

all_commentable(d) == UNION {hunk_commentable(d[h]) : h \in DOMAIN d}

(***************************************************************************)
(* Initial state: no delivery and no pass in progress.                     *)
(***************************************************************************)
NoHeader == [present |-> FALSE, value |-> <<>>]

Init ==
  /\ pc = "idle"
  /\ secret = 1
  /\ header = NoHeader
  /\ payload = 1
  /\ event = "ping"
  /\ sig_result = None
  /\ status = 0
  /\ error = None
  /\ log = <<>>
  /\ kind = None
  /\ diff = <<>>
  /\ thread_count = 0
  /\ output = NoOutput
  /\ result = NoOutput
  /\ returned = FALSE

(***************************************************************************)
(* webhooks.py: handle_webhook                                             *)
(***************************************************************************)
\* A delivery arrives: FastAPI hands the handler the signature header, the
\* event header and the raw body; settings holds the webhook secret.
Receive ==
  /\ pc = "idle"
  /\ \E k \in Secrets, h \in Headers, b \in Payloads, e \in Events :
       /\ secret' = k
       /\ header' = h
       /\ payload' = b
       /\ event' = e
  /\ pc' = "verify"
  /\ UNCHANGED <<sig_result, status, error, log>>
  /\ UNCHANGED review_vars

\* The handler's response once verify_signature has answered r.
AfterVerify(r) ==
  IF r = "True" THEN [pc |-> "json", status |-> 0, error |-> None]
  ELSE IF r = "False" THEN [pc |-> "done", status |-> 401, error |-> "HTTPException"]
  ELSE [pc |-> "done", status |-> 500, error |-> r]

VerifySignature ==
  /\ pc = "verify"
  /\ LET r == verify_signature(payload, OrEmpty(header), secret)
         next == AfterVerify(r)
     IN /\ sig_result' = r
        /\ pc' = next.pc
        /\ status' = next.status
        /\ error' = next.error
  /\ UNCHANGED <<secret, header, payload, event, log>>
  /\ UNCHANGED review_vars

\* data = await request.json()
ParseJson ==
  /\ pc = "json"
  /\ log' = Append(log, "request.json")
  /\ IF PayloadTable[payload].is_json
     THEN /\ pc' = "route"
          /\ UNCHANGED <<status, error>>
     ELSE /\ pc' = "done"
          /\ status' = 500
          /\ error' = "JSONDecodeError"
  /\ UNCHANGED <<secret, header, payload, event, sig_result>>
  /\ UNCHANGED review_vars

\* The if / elif / else on x_github_event.
Route ==
  /\ pc = "route"
  /\ log' = Append(log, "route:" \o event)
  /\ IF event = "issues"
     THEN /\ pc' = "issue_event"
          /\ UNCHANGED status
     ELSE /\ pc' = "done"
          /\ status' = 200
  /\ UNCHANGED <<secret, header, payload, event, sig_result, error>>
  /\ UNCHANGED review_vars

(***************************************************************************)
(* webhooks.py: handle_issue_event                                         *)
(***************************************************************************)
\* The statements of the handle_new_issue span, in program order.
HandleNewIssueStepsPostFirst == <<"get_github_client", "fetch_claude_md",
                                  "create_comment", "generate_issue_response">>

HandleNewIssueSteps == <<"get_github_client", "fetch_claude_md",
                         "generate_issue_response", "create_comment">>

StepAfter(step) ==
  LET i == CHOOSE j \in DOMAIN HandleNewIssueSteps : HandleNewIssueSteps[j] = step
  IN IF i = Len(HandleNewIssueSteps) THEN "return" ELSE HandleNewIssueSteps[i + 1]

RespondsAnyAction(p) == p.valid_issue /\ p.installation

\* Whether the handler goes on to respond: the payload validates, the action
\* is "opened" and an installation is present.
Responds(p) == p.valid_issue /\ p.action = "opened" /\ p.installation

\* model_validate and the two early returns.
IssueEventGuards ==
  /\ pc = "issue_event"
  /\ log' = Append(log, "model_validate")
  /\ IF Responds(PayloadTable[payload])
     THEN /\ pc' = HandleNewIssueSteps[1]
          /\ UNCHANGED status
     ELSE /\ pc' = "done"
          /\ status' = 200
  /\ UNCHANGED <<secret, header, payload, event, sig_result, error>>
  /\ UNCHANGED review_vars

\* Where the handler stands after a step that returned / that raised exc.
Proceed(step) ==
  /\ pc' = (IF StepAfter(step) = "return" THEN "done" ELSE StepAfter(step))
  /\ status' = (IF StepAfter(step) = "return" THEN 200 ELSE status)
  /\ UNCHANGED error

Raise(exc) ==
  /\ pc' = "done"
  /\ status' = 500
  /\ error' = exc

\* github = get_github_client(installation.id): the token exchange may fail.
GetGithubClient ==
  /\ pc = "get_github_client"
  /\ log' = Append(log, "get_github_client")
  /\ \/ Proceed("get_github_client")
     \/ Raise("GithubException")
  /\ UNCHANGED <<secret, header, payload, event, sig_result>>
  /\ UNCHANGED review_vars

\* fetch_claude_md: every exception is caught and None returned.
FetchClaudeMd ==
  /\ pc = "fetch_claude_md"
  /\ log' = Append(log, "get_contents")
  /\ Proceed("fetch_claude_md")
  /\ UNCHANGED <<secret, header, payload, event, sig_result>>
  /\ UNCHANGED review_vars

\* response_text = await generate_issue_response(...): agent.run returns an
\* IssueResponse or raises (provider error, or output failing the schema).
GenerateIssueResponse ==
  /\ pc = "generate_issue_response"
  /\ log' = Append(log, "agent.run")
  /\ \/ Proceed("generate_issue_response")
     \/ \E exc \in {"ProviderError", "SchemaValidationError"} : Raise(exc)
  /\ UNCHANGED <<secret, header, payload, event, sig_result>>
  /\ UNCHANGED review_vars

\* gh_issue.create_comment(response_text)
CreateComment ==
  /\ pc = "create_comment"
  /\ log' = Append(log, "create_comment")
  /\ \/ Proceed("create_comment")
     \/ Raise("GithubException")
  /\ UNCHANGED <<secret, header, payload, event, sig_result>>
  /\ UNCHANGED review_vars

(***************************************************************************)
(* llm.py: generate_pr_review and generate_pr_rereview                     *)
(***************************************************************************)
\* What each function returns of the agent's validated output.
ReviewReturn(out) == out

ReReviewReturn(out) == out

StartReview ==
  /\ pc = "idle"
  /\ \E d \in Diffs : diff' = d
  /\ kind' = "review"
  /\ thread_count' = 0
  /\ pc' = "generate_pr_review"
  /\ UNCHANGED <<output, result, returned>>
  /\ UNCHANGED webhook_vars

StartReReview ==
  /\ pc = "idle"
  /\ \E d \in Diffs : diff' = d
  /\ \E n \in 0..MaxThreads : thread_count' = n
  /\ kind' = "rereview"
  /\ pc' = "generate_pr_rereview"
  /\ UNCHANGED <<output, result, returned>>
  /\ UNCHANGED webhook_vars

\* result = await agent.run(prompt); return result.output
GeneratePrReview ==
  /\ pc = "generate_pr_review"
  /\ log' = Append(log, "agent.run")
  /\ pc' = "done"
  /\ \/ \E out \in PRReviewResponse :
          /\ output' = out
          /\ result' = ReviewReturn(out)
          /\ returned' = TRUE
          /\ UNCHANGED error
     \/ \E exc \in {"ProviderError", "SchemaValidationError"} :
          /\ error' = exc
          /\ UNCHANGED <<output, result, returned>>
  /\ UNCHANGED <<secret, header, payload, event, sig_result, status>>
  /\ UNCHANGED <<kind, diff, thread_count>>

GeneratePrReReview ==
  /\ pc = "generate_pr_rereview"
  /\ log' = Append(log, "agent.run")
  /\ pc' = "done"
  /\ \/ \E out \in PRReReviewResponse :
          /\ output' = out
          /\ result' = ReReviewReturn(out)
          /\ returned' = TRUE
          /\ UNCHANGED error
     \/ \E exc \in {"ProviderError", "SchemaValidationError"} :
          /\ error' = exc
          /\ UNCHANGED <<output, result, returned>>
  /\ UNCHANGED <<secret, header, payload, event, sig_result, status>>
  /\ UNCHANGED <<kind, diff, thread_count>>

Next ==
  \/ Receive
  \/ VerifySignature
  \/ ParseJson
  \/ Route
  \/ IssueEventGuards
  \/ GetGithubClient
  \/ FetchClaudeMd
  \/ GenerateIssueResponse
  \/ CreateComment
  \/ StartReview
  \/ StartReReview
  \/ GeneratePrReview
  \/ GeneratePrReReview

Spec == Init /\ [][Next]_vars

(***************************************************************************)
(* Vocabulary of the properties.                                           *)
(***************************************************************************)
InferenceErrors == {"ProviderError", "SchemaValidationError"}

\* The GitHub calls that change something on GitHub.
MutationCalls == {"create_comment", "create_review", "resolve_thread", "reply_to_thread"}

Logged(call) == \E i \in DOMAIN log : log[i] = call

ReviewDone == pc = "done" /\ kind = "review" /\ returned

ReReviewDone == pc = "done" /\ kind = "rereview" /\ returned

\* The inline comments a finished pass hands back for posting.
ReturnedComments == IF kind = "review" THEN result.comments ELSE result.new_comments

\* The positions of acts that name thread k.
Naming(acts, k) == {i \in DOMAIN acts : acts[i].thread_index = k}

Max(S) == CHOOSE x \in S : \A y \in S : y <= x

\* The header is the literal prefix followed by the hex digest of the body.
ValidSignature ==
  LET sig == OrEmpty(header)
  IN /\ startswith(sig, Sha256Prefix)
     /\ SubSeq(sig, Len(Sha256Prefix) + 1, Len(sig)) = hmac_hexdigest(secret, payload)

(***************************************************************************)
(* C1: in one re-review pass at most one mutation (resolve or reply) is    *)
(* handed back for each open thread, whatever list the model returned.     *)
(***************************************************************************)
C1_AtMostOneMutationPerThread ==
  ReReviewDone =>
    \A k \in 0..(thread_count - 1) : Cardinality(Naming(result.thread_actions, k)) <= 1

(***************************************************************************)
(* C2: verify_signature answers true exactly when the header is "sha256="  *)
(* followed by the hex HMAC of the body, and false for every other header. *)
(***************************************************************************)
C2_VerifySignatureIff ==
  sig_result # None =>
    sig_result = (IF ValidSignature THEN "True" ELSE "False")

(***************************************************************************)
(* C3: a delivery whose signature is not valid is answered 401, and        *)
(* nothing (JSON parsing, routing, inference, GitHub) has happened in it.  *)
(***************************************************************************)
C3_InvalidSignatureRejected401 ==
  (pc = "done" /\ sig_result # None /\ ~ValidSignature) =>
    (status = 401 /\ log = <<>>)

(***************************************************************************)
(* C4: when the inference call of a pass fails, the error is propagated    *)
(* (the handler answers 500, the pass returns nothing) and no GitHub       *)
(* mutation call has been made in that pass.                               *)
(***************************************************************************)
C4_InferenceFailureNoMutation ==
  (pc = "done" /\ error \in InferenceErrors) =>
    /\ ~returned
    /\ kind = None => status = 500
    /\ \A i \in DOMAIN log : log[i] \notin MutationCalls

C4_Witness ==
  /\ pc = "done"
  /\ error = "ProviderError"
  /\ kind = None
  /\ Logged("get_contents")
  /\ Logged("agent.run")

(***************************************************************************)
(* C5: every inline comment a review or re-review hands back for posting   *)
(* is on a commentable line of the current diff.                           *)
(***************************************************************************)
C5_ReturnedCommentsCommentable ==
  (pc = "done" /\ returned) =>
    \A i \in DOMAIN ReturnedComments :
      <<ReturnedComments[i].path, ReturnedComments[i].line>> \in all_commentable(diff)

(***************************************************************************)
(* C6: when the model names a thread more than once, exactly its last      *)
(* action for that thread is retained and the earlier ones are dropped.    *)
(***************************************************************************)
C6_LastActionWins ==
  ReReviewDone =>
    \A k \in 0..(thread_count - 1) :
      Cardinality(Naming(output.thread_actions, k)) > 1 =>
        \A i \in Naming(result.thread_actions, k) :
          /\ result.thread_actions[i]
               = output.thread_actions[Max(Naming(output.thread_actions, k))]
          /\ Naming(result.thread_actions, k) = {i}

(***************************************************************************)
(* C7: a re-review outcome with no new comments carries no top-level       *)
(* verdict: summary and approval are both None.                            *)
(***************************************************************************)
C7_NoCommentsNoVerdict ==
  (ReReviewDone /\ result.new_comments = <<>>) =>
    (result.summary = None /\ result.approval = None)

(***************************************************************************)
(* C8: every thread mutation of a re-review pass targets a thread_index in *)
(* [0, thread_count) that the model named.                                 *)
(***************************************************************************)
C8_MutationsTargetOpenThreads ==
  ReReviewDone =>
    \A i \in DOMAIN result.thread_actions :
      /\ result.thread_actions[i].thread_index \in 0..(thread_count - 1)
      /\ Naming(output.thread_actions, result.thread_actions[i].thread_index) # {}

(***************************************************************************)
(* C9: the thread mutations of a re-review pass come in ascending          *)
(* thread_index, whatever order the model listed them in: of two mutations *)
(* on different open threads the one on the lower index comes first.       *)
(***************************************************************************)
C9_ThreadMutationsAscending ==
  ReReviewDone =>
    \A i, j \in DOMAIN result.thread_actions :
      LET a == result.thread_actions[i].thread_index
          b == result.thread_actions[j].thread_index
      IN (i < j /\ a # b /\ {a, b} \subseteq 0..(thread_count - 1)) => a < b

(***************************************************************************)
(* C10: a line is treated as commentable only if it is an added or context *)
(* line of a hunk, counted from the hunk header's new_start: a review      *)
(* comment below new_start or past the hunk's new side is discarded.       *)
(***************************************************************************)
C10_CommentsWithinHunkNewSide ==
  (ReviewDone /\ diff # <<>>) =>
    \A i \in DOMAIN result.comments :
      \E h \in DOMAIN diff :
        /\ diff[h].path = result.comments[i].path
        /\ result.comments[i].line >= diff[h].new_start
        /\ result.comments[i].line
             < diff[h].new_start + RightSide(diff[h].lines, Len(diff[h].lines))

(***************************************************************************)
(* C12: a verified delivery creates at most one issue comment, and only    *)
(* for an "issues" event whose payload validates, has action "opened" and  *)
(* carries an installation; in every other case it makes no inference call *)
(* and no GitHub call; and a comment is created only after the inference   *)
(* call has returned.                                                      *)
(***************************************************************************)
\* The inference call and the GitHub calls of the issue handler.
OutboundCalls == {"get_github_client", "get_contents", "agent.run", "create_comment"}

Positions(call) == {i \in DOMAIN log : log[i] = call}

C12_AtMostOneCommentOnlyForOpenedIssue ==
  (kind = None /\ sig_result = "True") =>
    /\ Cardinality(Positions("create_comment")) <= 1
    /\ (\E c \in OutboundCalls : Logged(c)) =>
         /\ event = "issues"
         /\ PayloadTable[payload].valid_issue
         /\ PayloadTable[payload].action = "opened"
         /\ PayloadTable[payload].installation
    /\ \A i \in Positions("create_comment") :
         /\ \E j \in Positions("agent.run") : j < i
         /\ error \notin InferenceErrors

C12_Witness ==
  /\ pc = "done"
  /\ kind = None
  /\ sig_result = "True"
  /\ event = "issues"
  /\ status = 200
  /\ Cardinality(Positions("create_comment")) = 1

====
